---- MODULE Spec2Model ----
(***************************************************************************)
(* Model of libdeep's deep learner (src/src/deeplearn.c): the training     *)
(* state machine deeplearn_update, the error history, and save / load /    *)
(* compare.  A learner is a record with the fields of the C struct.        *)
(* Floats are modelled by integers (only =, < and copying are used on      *)
(* them); the backprop engine (bp_...) is not part of deeplearn.c and is   *)
(* modelled by its contract: a training step leaves some running-average   *)
(* error and adds one to the trained network's step count.                 *)
(***************************************************************************)
EXTENDS Integers, Sequences, FiniteSets, TLC

\* ---------------------------------------------------------------- bounds
\* hidden_layers argument of deeplearn_init
HiddenLayers == 2
\* capacity of learner->history (DEEPLEARN_HISTORY_SIZE of deeplearn.h), scaled
DEEPLEARN_HISTORY_SIZE == 4
\* warm-up count of deeplearn_update (the literal 100 of deeplearn.c:163), scaled
MinItterations == 5
\* largest unsigned int (limits.h), scaled
UINT_MAX == 7
\* deeplearn_update calls explored in one run
MaxUpdates == 16
\* training steps after which a converging network's error stays low
SettleSteps == 2
\* the most fields in which two compared learners differ
CompareDiffs == 2

\* ------------------------------------------------------------- constants
DEEPLEARN_UNKNOWN_ERROR == 9999
\* the null pointer, in the place of a network
NULL == [null |-> TRUE]

\* running-average errors a training step can leave in a network
ErrorValues == {1, 3, DEEPLEARN_UNKNOWN_ERROR}
\* entries of the caller's error_threshold[] array
ThresholdValues == {2, 4}
\* a caller's array of n thresholds, alternating from `first`
ThresholdArray(first, n) ==
    [i \in 1..n |-> IF i % 2 = 1 THEN first
                    ELSE CHOOSE v \in ThresholdValues : v # first]
\* what a read of memory that was never written can give
Indeterminate == {0, 7}
\* values handed to the hyper-parameter setters
Rates == {1}

\* ----------------------------------------------------- backprop engine
\* bp_init: a fresh network
bp_init(hidden_layers) ==
    [HiddenLayers |-> hidden_layers, itterations |-> 0,
     BPerrorAverage |-> DEEPLEARN_UNKNOWN_ERROR,
     learningRate |-> 0, DropoutPercent |-> 0, pretrained |-> {}]

\* bp_create_autocoder: a fresh single-hidden-layer network for one layer
bp_create_autocoder(net, layer) ==
    [HiddenLayers |-> 1, itterations |-> 0,
     BPerrorAverage |-> DEEPLEARN_UNKNOWN_ERROR,
     learningRate |-> 0, DropoutPercent |-> 0, pretrained |-> {}]

\* one training step of a network, leaving running-average error e
bp_step(net, e) ==
    [net EXCEPT !.BPerrorAverage = e,
                !.itterations = IF @ < UINT_MAX THEN @ + 1 ELSE @]

\* bp_pretrain trains the autocoder; bp_update trains the whole network
bp_pretrain(autocoder, e) == bp_step(autocoder, e)
bp_update(net, e) == bp_step(net, e)

\* bp_update_from_autocoder: the hidden layer takes the autocoder's weights
bp_update_from_autocoder(net, autocoder, layer) ==
    [net EXCEPT !.pretrained = @ \cup {layer}]

\* bp_save: the network goes to the stream as one item
bp_save(net) == <<net>>

\* bp_load: the network at offset pos of the stream; past the end of the
\* stream nothing is read and the struct stays as it was
bp_load(fp, pos, old) == IF pos < Len(fp) THEN fp[pos + 1] ELSE old

\* bp_compare: greater than zero when the two networks are the same
bp_compare(net1, net2) == IF net1 = net2 THEN 1 ELSE -1

\* ------------------------------------------------------------ the history
\* a halving that keeps the entries at the even places
history_halve_even(history, i, history_index) ==
    [k \in DOMAIN history |->
        IF 2 * k < history_index THEN history[2 * k] ELSE history[k]]

RECURSIVE history_halve(_, _, _)
\* the loop of deeplearn.c:54-56, run in place from index i
history_halve(history, i, history_index) ==
    IF i < history_index
    THEN history_halve([history EXCEPT ![i \div 2] = history[i]],
                       i + 1, history_index)
    ELSE history

\* deeplean_update_history with the step advanced by one instead of doubled
deeplean_update_history_incr(learner) ==
    LET ctr == learner.history_ctr + 1 IN
    IF ctr >= learner.history_step
    THEN LET error_value == IF learner.BPerror = DEEPLEARN_UNKNOWN_ERROR
                            THEN 0 ELSE learner.BPerror
             stored == [learner.history EXCEPT
                            ![learner.history_index] = error_value]
             index == learner.history_index + 1
         IN IF index >= DEEPLEARN_HISTORY_SIZE
            THEN [learner EXCEPT
                    !.history = history_halve(stored, 0, index),
                    !.history_index = index \div 2,
                    !.history_ctr = 0,
                    !.history_step = learner.history_step + 1]
            ELSE [learner EXCEPT
                    !.history = stored,
                    !.history_index = index,
                    !.history_ctr = 0]
    ELSE [learner EXCEPT !.history_ctr = ctr]

\* deeplean_update_history halving only once the index is past the capacity
deeplean_update_history_full(learner) ==
    LET ctr == learner.history_ctr + 1 IN
    IF ctr >= learner.history_step
    THEN LET error_value == IF learner.BPerror = DEEPLEARN_UNKNOWN_ERROR
                            THEN 0 ELSE learner.BPerror
             stored == [learner.history EXCEPT
                            ![learner.history_index] = error_value]
             index == learner.history_index + 1
         IN IF index > DEEPLEARN_HISTORY_SIZE
            THEN [learner EXCEPT
                    !.history = history_halve(stored, 0, index),
                    !.history_index = index \div 2,
                    !.history_ctr = 0,
                    !.history_step = learner.history_step * 2]
            ELSE [learner EXCEPT
                    !.history = stored,
                    !.history_index = index,
                    !.history_ctr = 0]
    ELSE [learner EXCEPT !.history_ctr = ctr]

\* deeplean_update_history storing the error as it is, UNKNOWN included
deeplean_update_history_raw(learner) ==
    LET ctr == learner.history_ctr + 1 IN
    IF ctr >= learner.history_step
    THEN LET error_value == learner.BPerror
             stored == [learner.history EXCEPT
                            ![learner.history_index] = error_value]
             index == learner.history_index + 1
         IN IF index >= DEEPLEARN_HISTORY_SIZE
            THEN [learner EXCEPT
                    !.history = history_halve(stored, 0, index),
                    !.history_index = index \div 2,
                    !.history_ctr = 0,
                    !.history_step = learner.history_step * 2]
            ELSE [learner EXCEPT
                    !.history = stored,
                    !.history_index = index,
                    !.history_ctr = 0]
    ELSE [learner EXCEPT !.history_ctr = ctr]

\* deeplean_update_history storing only once the counter is past the stride
deeplean_update_history_late(learner) ==
    LET ctr == learner.history_ctr + 1 IN
    IF ctr > learner.history_step
    THEN LET error_value == IF learner.BPerror = DEEPLEARN_UNKNOWN_ERROR
                            THEN 0 ELSE learner.BPerror
             stored == [learner.history EXCEPT
                            ![learner.history_index] = error_value]
             index == learner.history_index + 1
         IN IF index >= DEEPLEARN_HISTORY_SIZE
            THEN [learner EXCEPT
                    !.history = history_halve(stored, 0, index),
                    !.history_index = index \div 2,
                    !.history_ctr = 0,
                    !.history_step = learner.history_step * 2]
            ELSE [learner EXCEPT
                    !.history = stored,
                    !.history_index = index,
                    !.history_ctr = 0]
    ELSE [learner EXCEPT !.history_ctr = ctr]

\* deeplean_update_history
deeplean_update_history(learner) ==
    LET ctr == learner.history_ctr + 1 IN
    IF ctr >= learner.history_step
    THEN LET error_value == IF learner.BPerror = DEEPLEARN_UNKNOWN_ERROR
                            THEN 0 ELSE learner.BPerror
             stored == [learner.history EXCEPT
                            ![learner.history_index] = error_value]
             index == learner.history_index + 1
         IN IF index >= DEEPLEARN_HISTORY_SIZE
            THEN [learner EXCEPT
                    !.history = history_halve(stored, 0, index),
                    !.history_index = index \div 2,
                    !.history_ctr = 0,
                    !.history_step = learner.history_step * 2]
            ELSE [learner EXCEPT
                    !.history = stored,
                    !.history_index = index,
                    !.history_ctr = 0]
    ELSE [learner EXCEPT !.history_ctr = ctr]

\* ------------------------------------------------------------- deeplearn
\* a deeplearn struct that was declared and never written
Declared(junk) ==
    [training_complete |-> junk, itterations |-> junk,
     current_hidden_layer |-> junk, BPerror |-> junk,
     net |-> NULL, autocoder |-> NULL,
     error_threshold |-> [i \in 0..HiddenLayers |-> junk],
     history_index |-> junk, history_ctr |-> junk, history_step |-> junk,
     history |-> [i \in 0..(DEEPLEARN_HISTORY_SIZE - 1) |-> junk]]

\* what memcpy reads for error_threshold[i] from the caller's array: past its
\* end the read is undefined and gives `beyond`
ThresholdRead(error_threshold, i, beyond) ==
    IF i + 1 <= Len(error_threshold) THEN error_threshold[i + 1] ELSE beyond

\* deeplearn_init that leaves the history stride as the struct held it
deeplearn_init_nostride(learner, hidden_layers, error_threshold, beyond) ==
    LET net == bp_init(hidden_layers) IN
    [learner EXCEPT
        !.training_complete = 0,
        !.error_threshold =
            [i \in 0..hidden_layers |->
                ThresholdRead(error_threshold, i, beyond)],
        !.history_index = 0,
        !.history_ctr = 0,
        !.itterations = 0,
        !.current_hidden_layer = 0,
        !.net = net,
        !.autocoder = bp_create_autocoder(net, 0),
        !.BPerror = DEEPLEARN_UNKNOWN_ERROR]

\* deeplearn_init
deeplearn_init(learner, hidden_layers, error_threshold, beyond) ==
    LET net == bp_init(hidden_layers) IN
    [learner EXCEPT
        !.training_complete = 0,
        !.error_threshold =
            [i \in 0..hidden_layers |->
                ThresholdRead(error_threshold, i, beyond)],
        !.history_index = 0,
        !.history_ctr = 0,
        !.history_step = 1,
        !.itterations = 0,
        !.current_hidden_layer = 0,
        !.net = net,
        !.autocoder = bp_create_autocoder(net, 0),
        !.BPerror = DEEPLEARN_UNKNOWN_ERROR]

\* the promotion test without its minimum number of itterations
deeplearn_promote_nowarmup(BPerror, max_backprop_error, autocoder) ==
    /\ BPerror # DEEPLEARN_UNKNOWN_ERROR
    /\ BPerror < max_backprop_error

\* the promotion test of deeplearn.c:161-163
deeplearn_promote(BPerror, max_backprop_error, autocoder) ==
    /\ BPerror # DEEPLEARN_UNKNOWN_ERROR
    /\ BPerror < max_backprop_error
    /\ autocoder.itterations > MinItterations

\* the pretraining branch with one change: `advance` layers are stepped over
\* by a promotion, and the new autocoder is made regardless of the layer when `always`
deeplearn_pretrain_with(learner, e, advance, always) ==
    LET max_backprop_error ==
            learner.error_threshold[learner.current_hidden_layer]
        trained == bp_pretrain(learner.autocoder, e)
        BPerror == trained.BPerrorAverage
        layer == learner.current_hidden_layer + advance
    IN IF deeplearn_promote(BPerror, max_backprop_error, trained)
       THEN [learner EXCEPT
                !.net = bp_update_from_autocoder(learner.net, trained,
                            learner.current_hidden_layer),
                !.autocoder = IF always \/ layer < learner.net.HiddenLayers
                              THEN bp_create_autocoder(learner.net, layer)
                              ELSE NULL,
                !.current_hidden_layer = layer,
                !.BPerror = DEEPLEARN_UNKNOWN_ERROR]
       ELSE [learner EXCEPT !.autocoder = trained, !.BPerror = BPerror]

\* a promotion that advances the layer twice
deeplearn_pretrain_twice(learner, e) ==
    deeplearn_pretrain_with(learner, e, 2, FALSE)

\* a promotion that makes a new autocoder also after the final hidden layer
deeplearn_pretrain_always(learner, e) ==
    deeplearn_pretrain_with(learner, e, 1, TRUE)

\* a promotion that does not advance the layer
deeplearn_pretrain_stuck(learner, e) ==
    deeplearn_pretrain_with(learner, e, 0, FALSE)

\* the pretraining branch with a promotion that leaves the error as it is
deeplearn_pretrain_noreset(learner, e) ==
    LET max_backprop_error ==
            learner.error_threshold[learner.current_hidden_layer]
        trained == bp_pretrain(learner.autocoder, e)
        BPerror == trained.BPerrorAverage
        layer == learner.current_hidden_layer + 1
    IN IF deeplearn_promote(BPerror, max_backprop_error, trained)
       THEN [learner EXCEPT
                !.net = bp_update_from_autocoder(learner.net, trained,
                            learner.current_hidden_layer),
                !.autocoder = IF layer < learner.net.HiddenLayers
                              THEN bp_create_autocoder(learner.net, layer)
                              ELSE NULL,
                !.current_hidden_layer = layer,
                !.BPerror = BPerror]
       ELSE [learner EXCEPT !.autocoder = trained, !.BPerror = BPerror]

\* the pretraining branch of deeplearn_update (deeplearn.c:151-191)
deeplearn_pretrain(learner, e) ==
    LET max_backprop_error ==
            learner.error_threshold[learner.current_hidden_layer]
        trained == bp_pretrain(learner.autocoder, e)
        BPerror == trained.BPerrorAverage
        layer == learner.current_hidden_layer + 1
    IN IF deeplearn_promote(BPerror, max_backprop_error, trained)
       THEN [learner EXCEPT
                !.net = bp_update_from_autocoder(learner.net, trained,
                            learner.current_hidden_layer),
                !.autocoder = IF layer < learner.net.HiddenLayers
                              THEN bp_create_autocoder(learner.net, layer)
                              ELSE NULL,
                !.current_hidden_layer = layer,
                !.BPerror = DEEPLEARN_UNKNOWN_ERROR]
       ELSE [learner EXCEPT !.autocoder = trained, !.BPerror = BPerror]

\* the fine-tuning branch with the comparison against the threshold reversed
deeplearn_finetune_reversed(learner, e) ==
    LET max_backprop_error ==
            learner.error_threshold[learner.current_hidden_layer]
        trained == bp_update(learner.net, e)
        BPerror == trained.BPerrorAverage
    IN [learner EXCEPT
            !.net = trained,
            !.BPerror = BPerror,
            !.training_complete =
                IF BPerror >= max_backprop_error THEN 1 ELSE @]

\* the fine-tuning branch of deeplearn_update (deeplearn.c:193-204)
deeplearn_finetune(learner, e) ==
    LET max_backprop_error ==
            learner.error_threshold[learner.current_hidden_layer]
        trained == bp_update(learner.net, e)
        BPerror == trained.BPerrorAverage
    IN [learner EXCEPT
            !.net = trained,
            !.BPerror = BPerror,
            !.training_complete =
                IF BPerror < max_backprop_error THEN 1 ELSE @]

\* deeplearn.c:209-212
deeplearn_count(learner) ==
    [learner EXCEPT !.net.itterations = IF @ < UINT_MAX THEN @ + 1 ELSE @]

\* deeplearn_update that turns to the whole network one hidden layer early
deeplearn_update_early(learner, e) ==
    IF learner.training_complete = 1 THEN learner
    ELSE LET stepped ==
                 IF learner.current_hidden_layer + 1 < learner.net.HiddenLayers
                 THEN deeplearn_pretrain(learner, e)
                 ELSE deeplearn_finetune(learner, e)
         IN deeplearn_count(deeplean_update_history(stepped))

\* deeplearn_update that goes on training when the training is complete
deeplearn_update_regardless(learner, e) ==
    LET stepped ==
            IF learner.current_hidden_layer < learner.net.HiddenLayers
            THEN deeplearn_pretrain(learner, e)
            ELSE deeplearn_finetune(learner, e)
    IN deeplearn_count(deeplean_update_history(stepped))

\* deeplearn_update; e is the running-average error the training step leaves
deeplearn_update(learner, e) ==
    IF learner.training_complete = 1 THEN learner
    ELSE LET stepped ==
                 IF learner.current_hidden_layer < learner.net.HiddenLayers
                 THEN deeplearn_pretrain(learner, e)
                 ELSE deeplearn_finetune(learner, e)
         IN deeplearn_count(deeplean_update_history(stepped))

\* deeplearn_free: both networks and the thresholds are released; the
\* struct keeps its (now dangling) pointers
deeplearn_free(learner) == learner

\* deeplearn_set_learning_rate that also restarts the training
deeplearn_set_learning_rate_restart(learner, rate) ==
    IF learner.autocoder # NULL
    THEN [learner EXCEPT !.net.learningRate = rate,
                         !.autocoder.learningRate = rate,
                         !.training_complete = 0]
    ELSE [learner EXCEPT !.net.learningRate = rate,
                         !.training_complete = 0]

\* deeplearn_set_learning_rate
deeplearn_set_learning_rate(learner, rate) ==
    IF learner.autocoder # NULL
    THEN [learner EXCEPT !.net.learningRate = rate,
                         !.autocoder.learningRate = rate]
    ELSE [learner EXCEPT !.net.learningRate = rate]

\* deeplearn_set_dropouts that leaves the autocoder as it is
deeplearn_set_dropouts_netonly(learner, dropout_percent) ==
    [learner EXCEPT !.net.DropoutPercent = dropout_percent]

\* deeplearn_set_dropouts
deeplearn_set_dropouts(learner, dropout_percent) ==
    IF learner.autocoder # NULL
    THEN [learner EXCEPT !.net.DropoutPercent = dropout_percent,
                         !.autocoder.DropoutPercent = dropout_percent]
    ELSE [learner EXCEPT !.net.DropoutPercent = dropout_percent]

\* deeplearn_plot_history: the x-coordinate written for sample `index`
deeplearn_plot_history_x(learner, index) == index * learner.history_step

\* ------------------------------------------------------------ persistence
\* A stream is a sequence of items: an int or float each, or a whole network
\* as bp_save writes it.  Every write succeeds; a read past the end of the
\* stream reads nothing and leaves its destination as it was.

\* the items fwrite takes from array[0 .. count-1]
Items(array, count) == [i \in 1..count |-> array[i - 1]]

\* deeplearn_save: the stream written and the value returned
deeplearn_save(learner) ==
    LET header == <<learner.training_complete, learner.itterations,
                    learner.current_hidden_layer, learner.BPerror>>
                  \o bp_save(learner.net)
        coder == IF learner.autocoder # NULL
                 THEN <<1>> \o bp_save(learner.autocoder) ELSE <<0>>
        thresholds == Items(learner.error_threshold,
                            learner.net.HiddenLayers + 1)
        counters == <<learner.history_index, learner.history_ctr,
                      learner.history_step>>
        samples == Items(learner.history, learner.history_index)
    IN [fp |-> header \o coder \o thresholds \o counters \o samples,
        retval |-> Len(samples)]

\* fread of one item at offset pos into a destination holding old
Fread1(fp, pos, old) == IF pos < Len(fp) THEN fp[pos + 1] ELSE old

\* the number of items fread delivers when asked for count items at pos
FreadCount(fp, pos, count) ==
    IF pos >= Len(fp) \/ count <= 0 THEN 0
    ELSE IF count < Len(fp) - pos THEN count ELSE Len(fp) - pos

\* a bp struct that was allocated and never written
bp_unread(junk) ==
    [HiddenLayers |-> junk, itterations |-> junk, BPerrorAverage |-> junk,
     learningRate |-> junk, DropoutPercent |-> junk, pretrained |-> {}]

\* deeplearn_load reading history_step before history_ctr
deeplearn_load_swapped(fp, learner, junk) ==
    LET net == bp_load(fp, 4, bp_unread(junk))
        val == Fread1(fp, 5, 0)
        autocoder == IF val = 1 THEN bp_load(fp, 6, bp_unread(junk)) ELSE NULL
        p == IF val = 1 THEN 7 ELSE 6
        n == net.HiddenLayers + 1
        q == p + n
        history_index == Fread1(fp, q, learner.history_index)
        got == FreadCount(fp, q + 3, history_index)
    IN [learner |->
          [training_complete |-> Fread1(fp, 0, learner.training_complete),
           itterations |-> Fread1(fp, 1, learner.itterations),
           current_hidden_layer |->
               Fread1(fp, 2, learner.current_hidden_layer),
           BPerror |-> Fread1(fp, 3, learner.BPerror),
           net |-> net,
           autocoder |-> autocoder,
           error_threshold |-> [i \in 0..(n - 1) |-> Fread1(fp, p + i, junk)],
           history_index |-> history_index,
           history_step |-> Fread1(fp, q + 1, learner.history_step),
           history_ctr |-> Fread1(fp, q + 2, learner.history_ctr),
           history |-> [i \in 0..(DEEPLEARN_HISTORY_SIZE - 1) |->
                           IF i < got THEN fp[q + 3 + i + 1]
                           ELSE learner.history[i]]],
        retval |-> got]

\* deeplearn_load into a struct holding `learner`; junk is what allocated
\* memory holds before it is written
deeplearn_load(fp, learner, junk) ==
    LET net == bp_load(fp, 4, bp_unread(junk))
        val == Fread1(fp, 5, 0)
        autocoder == IF val = 1 THEN bp_load(fp, 6, bp_unread(junk)) ELSE NULL
        p == IF val = 1 THEN 7 ELSE 6
        n == net.HiddenLayers + 1
        q == p + n
        history_index == Fread1(fp, q, learner.history_index)
        got == FreadCount(fp, q + 3, history_index)
    IN [learner |->
          [training_complete |-> Fread1(fp, 0, learner.training_complete),
           itterations |-> Fread1(fp, 1, learner.itterations),
           current_hidden_layer |->
               Fread1(fp, 2, learner.current_hidden_layer),
           BPerror |-> Fread1(fp, 3, learner.BPerror),
           net |-> net,
           autocoder |-> autocoder,
           error_threshold |-> [i \in 0..(n - 1) |-> Fread1(fp, p + i, junk)],
           history_index |-> history_index,
           history_ctr |-> Fread1(fp, q + 1, learner.history_ctr),
           history_step |-> Fread1(fp, q + 2, learner.history_step),
           history |-> [i \in 0..(DEEPLEARN_HISTORY_SIZE - 1) |->
                           IF i < got THEN fp[q + 3 + i + 1]
                           ELSE learner.history[i]]],
        retval |-> got]

\* deeplearn_compare looking at the step count before the samples
deeplearn_compare_reordered(learner1, learner2) ==
    IF learner1.current_hidden_layer # learner2.current_hidden_layer THEN -1
    ELSE IF learner1.BPerror # learner2.BPerror THEN -2
    ELSE IF bp_compare(learner1.net, learner2.net) < 1 THEN -3
    ELSE IF (learner1.autocoder = NULL) # (learner2.autocoder = NULL) THEN -4
    ELSE IF learner1.history_index # learner2.history_index THEN -5
    ELSE IF learner1.history_ctr # learner2.history_ctr THEN -6
    ELSE IF learner1.history_step # learner2.history_step THEN -7
    ELSE IF learner1.itterations # learner2.itterations THEN -9
    ELSE IF \E i \in 0..(learner1.history_index - 1) :
                learner1.history[i] # learner2.history[i] THEN -8
    ELSE IF \E i \in 0..learner1.net.HiddenLayers :
                learner1.error_threshold[i] # learner2.error_threshold[i]
         THEN -10
    ELSE 1

\* deeplearn_compare looking at training_complete as well
deeplearn_compare_complete(learner1, learner2) ==
    IF learner1.training_complete # learner2.training_complete THEN -11
    ELSE IF learner1.current_hidden_layer # learner2.current_hidden_layer
    THEN -1
    ELSE IF learner1.BPerror # learner2.BPerror THEN -2
    ELSE IF bp_compare(learner1.net, learner2.net) < 1 THEN -3
    ELSE IF (learner1.autocoder = NULL) # (learner2.autocoder = NULL) THEN -4
    ELSE IF learner1.history_index # learner2.history_index THEN -5
    ELSE IF learner1.history_ctr # learner2.history_ctr THEN -6
    ELSE IF learner1.history_step # learner2.history_step THEN -7
    ELSE IF \E i \in 0..(learner1.history_index - 1) :
                learner1.history[i] # learner2.history[i] THEN -8
    ELSE IF learner1.itterations # learner2.itterations THEN -9
    ELSE IF \E i \in 0..learner1.net.HiddenLayers :
                learner1.error_threshold[i] # learner2.error_threshold[i]
         THEN -10
    ELSE 1

\* deeplearn_compare
deeplearn_compare(learner1, learner2) ==
    IF learner1.current_hidden_layer # learner2.current_hidden_layer THEN -1
    ELSE IF learner1.BPerror # learner2.BPerror THEN -2
    ELSE IF bp_compare(learner1.net, learner2.net) < 1 THEN -3
    ELSE IF (learner1.autocoder = NULL) # (learner2.autocoder = NULL) THEN -4
    ELSE IF learner1.history_index # learner2.history_index THEN -5
    ELSE IF learner1.history_ctr # learner2.history_ctr THEN -6
    ELSE IF learner1.history_step # learner2.history_step THEN -7
    ELSE IF \E i \in 0..(learner1.history_index - 1) :
                learner1.history[i] # learner2.history[i] THEN -8
    ELSE IF learner1.itterations # learner2.itterations THEN -9
    ELSE IF \E i \in 0..learner1.net.HiddenLayers :
                learner1.error_threshold[i] # learner2.error_threshold[i]
         THEN -10
    ELSE 1

\* ------------------------------------------------------------------ state
VARIABLES
    pc,             \* the caller's place: declared, live, saved, loaded, freed,
                    \* compared
    learner,        \* the deeplearn struct being trained
    threshold_len,  \* length of the array the caller gave deeplearn_init
    updates,        \* deeplearn_update calls so far that were not no-ops
    layer_updates,  \* those of them made since the last promotion
    trained,        \* what the last update's training step left behind
    recorded_at,    \* for each history slot, the update call that filled it
    last_record,    \* the latest update call that stored a sample, or -1
    fp,             \* the stream deeplearn_save wrote
    learner2,       \* the struct deeplearn_load filled
    retval,         \* what deeplearn_save, deeplearn_load and deeplearn_compare
                    \* returned
    autocoders      \* the autocoders allocated so far: how many were made,
                    \* how often each was released, which one the learner's
                    \* pointer names (0: none), and the uses of one that is
                    \* not allocated

vars == <<pc, learner, threshold_len, updates, layer_updates, trained,
          recorded_at, last_record, fp, learner2, retval, autocoders>>

training == <<updates, layer_updates, trained, recorded_at, last_record>>
persisted == <<fp, learner2, retval>>

NoStep == [op |-> "none", BPerror |-> 0, itterations |-> 0, calls |-> <<>>]

\* arrays a caller can pass as error_threshold[]: the right length, or short
CallerThresholds ==
    {ThresholdArray(first, n) :
        first \in ThresholdValues, n \in {HiddenLayers, HiddenLayers + 1}}

Init ==
    /\ pc = "declared"
    /\ learner = Declared(0)
    /\ threshold_len = 0
    /\ updates = 0
    /\ layer_updates = 0
    /\ trained = NoStep
    /\ recorded_at = [i \in 0..(DEEPLEARN_HISTORY_SIZE - 1) |-> 0]
    /\ last_record = -1
    /\ fp = <<>>
    /\ learner2 = Declared(0)
    /\ retval = [save |-> 0, load |-> 0, compare |-> 0]
    /\ autocoders = [made |-> 0, released |-> <<>>, held |-> 0, wild |-> 0]

\* a statement of deeplearn_update, and the hidden layer it is given
Call(name, layer) == [call |-> name, layer |-> layer]

\* the promotion block of deeplearn_update, statement by statement
PromotionCalls(layer, hidden_layers) ==
    <<Call("bp_update_from_autocoder", layer),
      Call("bp_free", layer),
      Call("autocoder = 0", layer),
      Call("current_hidden_layer++", layer)>>
    \o (IF layer + 1 < hidden_layers
        THEN <<Call("bp_create_autocoder", layer + 1)>> ELSE <<>>)
    \o <<Call("BPerror = DEEPLEARN_UNKNOWN_ERROR", layer + 1)>>

\* the statements one deeplearn_update call executes, in the order of the
\* source text
deeplearn_update_calls(l, e) ==
    IF l.training_complete = 1 THEN <<>>
    ELSE IF l.current_hidden_layer < l.net.HiddenLayers
    THEN LET autocoder == bp_pretrain(l.autocoder, e)
             layer == l.current_hidden_layer
         IN <<Call("bp_pretrain", layer)>>
            \o (IF deeplearn_promote(autocoder.BPerrorAverage,
                                     l.error_threshold[layer], autocoder)
                THEN PromotionCalls(layer, l.net.HiddenLayers) ELSE <<>>)
            \o <<Call("deeplean_update_history", l.current_hidden_layer)>>
    ELSE <<Call("bp_update", l.current_hidden_layer),
           Call("deeplean_update_history", l.current_hidden_layer)>>

\* the allocations of deeplearn_init, in the order of the source text
deeplearn_init_calls(hidden_layers) ==
    <<Call("bp_init", 0), Call("bp_create_autocoder", 0)>>

\* deeplearn_free releasing the autocoder whatever the pointer holds
deeplearn_free_calls_unguarded(l) ==
    <<Call("bp_free net", l.current_hidden_layer),
      Call("free error_threshold", l.current_hidden_layer),
      Call("bp_free", l.current_hidden_layer)>>

\* the releases of deeplearn_free, in the order of the source text
deeplearn_free_calls(l) ==
    <<Call("bp_free net", l.current_hidden_layer),
      Call("free error_threshold", l.current_hidden_layer)>>
    \o (IF l.autocoder # NULL
        THEN <<Call("bp_free", l.current_hidden_layer)>> ELSE <<>>)

\* whether the learner's autocoder pointer names an allocated autocoder
Allocated(h) == h.held # 0 /\ h.released[h.held] = 0

\* what one statement does to the allocated autocoders
AutocoderCall(h, c) ==
    IF c.call = "bp_create_autocoder"
    THEN [h EXCEPT !.made = @ + 1, !.released = Append(@, 0),
                   !.held = h.made + 1]
    ELSE IF c.call = "bp_free"
    THEN IF h.held # 0 THEN [h EXCEPT !.released[h.held] = @ + 1]
         ELSE [h EXCEPT !.wild = @ + 1]
    ELSE IF c.call = "autocoder = 0" THEN [h EXCEPT !.held = 0]
    ELSE IF c.call = "bp_pretrain" /\ ~Allocated(h)
    THEN [h EXCEPT !.wild = @ + 1]
    ELSE h

RECURSIVE AutocoderCalls(_, _)
\* what a sequence of statements does to the allocated autocoders
AutocoderCalls(h, calls) ==
    IF calls = <<>> THEN h
    ELSE AutocoderCalls(AutocoderCall(h, Head(calls)), Tail(calls))

\* deeplearn_init called with an array of any length
DeeplearnInit ==
    /\ pc = "declared"
    /\ \E error_threshold \in CallerThresholds, beyond \in Indeterminate :
          /\ learner' = deeplearn_init(learner, HiddenLayers,
                                       error_threshold, beyond)
          /\ threshold_len' = Len(error_threshold)
    /\ autocoders' = AutocoderCalls(autocoders,
                                     deeplearn_init_calls(HiddenLayers))
    /\ pc' = "live"
    /\ UNCHANGED <<training, persisted>>

\* deeplearn_init called as documented, with hidden_layers+1 thresholds
DeeplearnInitFull ==
    /\ pc = "declared"
    /\ \E first \in ThresholdValues :
          learner' = deeplearn_init(learner, HiddenLayers,
                         ThresholdArray(first, HiddenLayers + 1), 0)
    /\ threshold_len' = HiddenLayers + 1
    /\ autocoders' = AutocoderCalls(autocoders,
                                     deeplearn_init_calls(HiddenLayers))
    /\ pc' = "live"
    /\ UNCHANGED <<training, persisted>>

\* what the training step of an update leaves: which network was trained,
\* its running-average error and its step count
Trained(l, e) ==
    IF l.training_complete = 1 THEN NoStep
    ELSE IF l.current_hidden_layer < l.net.HiddenLayers
    THEN [op |-> "pretrain",
          BPerror |-> bp_pretrain(l.autocoder, e).BPerrorAverage,
          itterations |-> bp_pretrain(l.autocoder, e).itterations,
          calls |-> deeplearn_update_calls(l, e)]
    ELSE [op |-> "finetune",
          BPerror |-> bp_update(l.net, e).BPerrorAverage,
          itterations |-> bp_update(l.net, e).itterations,
          calls |-> deeplearn_update_calls(l, e)]

\* the slots of the history after an update, each holding the number of
\* earlier updates at the update call that filled it: deeplean_update_history
\* run on the call numbers in place of the errors
RecordedAt(l, slots, call) ==
    IF l.training_complete = 1 THEN slots
    ELSE deeplean_update_history(
             [l EXCEPT !.history = slots, !.BPerror = call]).history

\* whether an update of learner l stores a sample: the storing block of
\* deeplean_update_history, and nothing else, leaves history_ctr at 0
Stores(l) ==
    /\ l.training_complete # 1
    /\ deeplean_update_history(l).history_ctr = 0

\* one deeplearn_update call whose training step leaves error e
Update(e) ==
    /\ learner' = deeplearn_update(learner, e)
    /\ trained' = Trained(learner, e)
    /\ recorded_at' = RecordedAt(learner, recorded_at, updates)
    /\ last_record' = IF Stores(learner) THEN updates ELSE last_record
    /\ autocoders' = AutocoderCalls(autocoders,
                                     deeplearn_update_calls(learner, e))
    /\ updates' = IF learner.training_complete = 1 THEN updates
                  ELSE updates + 1
    /\ layer_updates' =
          IF learner.training_complete = 1 THEN layer_updates
          ELSE IF learner'.current_hidden_layer
                    # learner.current_hidden_layer THEN 0
          ELSE layer_updates + 1

DeeplearnUpdate ==
    /\ pc = "live"
    /\ updates < MaxUpdates
    /\ \E e \in ErrorValues : Update(e)
    /\ UNCHANGED <<pc, threshold_len, persisted>>

DeeplearnSetLearningRate ==
    /\ pc = "live"
    /\ \E rate \in Rates :
          learner' = deeplearn_set_learning_rate(learner, rate)
    /\ UNCHANGED <<pc, threshold_len, training, persisted, autocoders>>

DeeplearnSetDropouts ==
    /\ pc = "live"
    /\ \E dropout_percent \in Rates :
          learner' = deeplearn_set_dropouts(learner, dropout_percent)
    /\ UNCHANGED <<pc, threshold_len, training, persisted, autocoders>>

DeeplearnFree ==
    /\ pc = "live"
    /\ learner' = deeplearn_free(learner)
    /\ autocoders' = AutocoderCalls(autocoders,
                                     deeplearn_free_calls(learner))
    /\ pc' = "freed"
    /\ UNCHANGED <<threshold_len, training, persisted>>

DeeplearnSave ==
    /\ pc = "live"
    /\ fp' = deeplearn_save(learner).fp
    /\ retval' = [retval EXCEPT !.save = deeplearn_save(learner).retval]
    /\ pc' = "saved"
    /\ UNCHANGED <<learner, threshold_len, training, learner2, autocoders>>

\* deeplearn_load from the first `length` items of the saved stream
DeeplearnLoad ==
    /\ pc = "saved"
    /\ \E length \in 0..Len(fp), junk \in Indeterminate :
          LET loaded == deeplearn_load(SubSeq(fp, 1, length),
                                       Declared(junk), junk)
          IN /\ learner2' = loaded.learner
             /\ retval' = [retval EXCEPT !.load = loaded.retval]
             /\ fp' = SubSeq(fp, 1, length)
    /\ pc' = "loaded"
    /\ UNCHANGED <<learner, threshold_len, training, autocoders>>

\* the parts of a deeplearn struct in which a second learner can differ from
\* the first; history_beyond is the last slot of history[], which holds no
\* stored sample
LearnerParts ==
    {"training_complete", "current_hidden_layer", "BPerror", "net",
     "autocoder", "history_index", "history_ctr", "history_step", "history",
     "history_beyond", "itterations", "error_threshold"}

\* a learner like l that holds another value in each of the given parts
Differing(l, parts) ==
    [training_complete |->
        IF "training_complete" \in parts
        THEN 1 - l.training_complete ELSE l.training_complete,
     itterations |->
        IF "itterations" \in parts THEN l.itterations + 1 ELSE l.itterations,
     current_hidden_layer |->
        IF "current_hidden_layer" \in parts
        THEN (l.current_hidden_layer + 1) % (l.net.HiddenLayers + 1)
        ELSE l.current_hidden_layer,
     BPerror |->
        IF "BPerror" \in parts
        THEN (IF l.BPerror = 1 THEN 3 ELSE 1) ELSE l.BPerror,
     net |->
        IF "net" \in parts
        THEN [l.net EXCEPT !.learningRate = @ + 1] ELSE l.net,
     autocoder |->
        IF "autocoder" \in parts
        THEN (IF l.autocoder = NULL
              THEN bp_create_autocoder(l.net, 0) ELSE NULL)
        ELSE l.autocoder,
     error_threshold |->
        IF "error_threshold" \in parts
        THEN [l.error_threshold EXCEPT ![l.net.HiddenLayers] = @ + 1]
        ELSE l.error_threshold,
     history_index |->
        IF "history_index" \in parts
        THEN (l.history_index + 1) % DEEPLEARN_HISTORY_SIZE
        ELSE l.history_index,
     history_ctr |->
        IF "history_ctr" \in parts THEN l.history_ctr + 1 ELSE l.history_ctr,
     history_step |->
        IF "history_step" \in parts
        THEN l.history_step * 2 ELSE l.history_step,
     history |->
        [i \in 0..(DEEPLEARN_HISTORY_SIZE - 1) |->
            IF \/ i = 0 /\ "history" \in parts
               \/ i = DEEPLEARN_HISTORY_SIZE - 1 /\ "history_beyond" \in parts
            THEN l.history[i] + 1 ELSE l.history[i]]]

\* deeplearn_compare of the learner with a second one that differs from it
\* in at most CompareDiffs parts
DeeplearnCompare ==
    /\ pc = "live"
    /\ \E parts \in SUBSET LearnerParts :
          /\ Cardinality(parts) <= CompareDiffs
          /\ learner2' = Differing(learner, parts)
          /\ retval' = [retval EXCEPT !.compare =
                            deeplearn_compare(learner, Differing(learner, parts))]
    /\ pc' = "compared"
    /\ UNCHANGED <<learner, threshold_len, training, fp, autocoders>>

\* training, the setters and the release of the learner
Next ==
    \/ DeeplearnInit
    \/ DeeplearnUpdate
    \/ DeeplearnSetLearningRate
    \/ DeeplearnSetDropouts
    \/ DeeplearnFree

Spec == Init /\ [][Next]_vars

\* training followed by a save and a load of what was saved
NextPersist ==
    \/ DeeplearnInitFull
    \/ DeeplearnUpdate
    \/ DeeplearnSave
    \/ DeeplearnLoad

SpecPersist == Init /\ [][NextPersist]_vars

\* ---------------------------------------------------- converging training
\* errors a training step can leave when the trained network converges: any
\* during its first SettleSteps steps, below the layer's threshold afterwards
ConvergingErrors ==
    IF layer_updates < SettleSteps THEN ErrorValues
    ELSE {e \in ErrorValues :
            /\ e # DEEPLEARN_UNKNOWN_ERROR
            /\ e < learner.error_threshold[learner.current_hidden_layer]}

\* update calls that are enough for every converging run to complete
LiveUpdates == (HiddenLayers + 1) * (MinItterations + SettleSteps + 1)

DeeplearnUpdateConverging ==
    /\ pc = "live"
    /\ updates < LiveUpdates
    /\ \E e \in ConvergingErrors : Update(e)
    /\ UNCHANGED <<pc, threshold_len, persisted>>

NextLive ==
    \/ DeeplearnInitFull
    \/ DeeplearnUpdateConverging

\* the caller constructs the learner and keeps calling deeplearn_update
SpecLive ==
    /\ Init
    /\ [][NextLive]_vars
    /\ WF_vars(DeeplearnInitFull)
    /\ WF_vars(DeeplearnUpdateConverging)

\* a training run that converges, and a comparison at any point of it
NextCompare ==
    \/ DeeplearnInitFull
    \/ DeeplearnUpdateConverging
    \/ DeeplearnCompare

SpecCompare == Init /\ [][NextCompare]_vars

\* ----------------------------------------------------------------- claims
Live == pc = "live"
Layer == learner.current_hidden_layer
Promoted == Live /\ learner'.current_hidden_layer > Layer

\* C1: across deeplearn_update calls current_hidden_layer never decreases,
\* grows by at most 1 per call, and after deeplearn_init it always is within
\* [0, hiddenLayerCount].
C1_LayerMonotone ==
    [][/\ pc' # "declared" =>
            learner'.current_hidden_layer \in 0..learner'.net.HiddenLayers
       /\ Live =>
            learner'.current_hidden_layer \in {Layer, Layer + 1}]_vars

\* C1 witness: every hidden layer has been promoted, one at a time
C1_Witness ==
    /\ Live
    /\ Layer = HiddenLayers
    /\ updates >= HiddenLayers * (MinItterations + 1)

\* C2: in a live learner the autocoder is present exactly while
\* current_hidden_layer < hiddenLayerCount; the step that promotes the last
\* hidden layer makes it absent, and once absent it stays absent.
C2_AutocoderLifecycle ==
    /\ [](Live => ((learner.autocoder # NULL)
                      <=> (Layer < learner.net.HiddenLayers)))
    /\ [][/\ (Promoted /\ Layer = learner.net.HiddenLayers - 1)
               => learner'.autocoder = NULL
          /\ (Live /\ learner.autocoder = NULL)
               => learner'.autocoder = NULL]_vars

\* C2 witness: fine-tuning goes on after the last promotion, with no autocoder
C2_Witness ==
    /\ Live
    /\ Layer = HiddenLayers
    /\ learner.autocoder = NULL
    /\ trained.op = "finetune"

\* C3: once training_complete is true it stays true, whatever update and
\* setter calls follow.
C3_CompleteStays ==
    [][(pc # "declared" /\ learner.training_complete = 1)
          => learner'.training_complete = 1]_vars

\* C3 witness: the training is complete, and an update and a setter were
\* called after that
C3_Witness ==
    /\ Live
    /\ learner.training_complete = 1
    /\ trained.op = "none"
    /\ learner.net.learningRate # learner.net.DropoutPercent

IsPowerOfTwo(n) == \E k \in 0..MaxUpdates : n = 2 ^ k

\* C4: the number of stored samples never exceeds DEEPLEARN_HISTORY_SIZE, and
\* history_step is a power of two (times its initial value 1).
C4_HistoryBound ==
    pc # "declared" =>
        /\ learner.history_index \in 0..DEEPLEARN_HISTORY_SIZE
        /\ IsPowerOfTwo(learner.history_step)

\* C4 witness: the history was halved at least twice
C4_Witness ==
    /\ Live
    /\ learner.history_step >= 4
    /\ learner.history_index > DEEPLEARN_HISTORY_SIZE \div 2

\* the whole saved stream was loaded
LoadedAll == pc = "loaded" /\ fp = deeplearn_save(learner).fp

\* C5: a learner saved in any state and loaded from the whole stream compares
\* equal (1) to the original, with the same training_complete, step count,
\* layer, error, autocoder presence, thresholds, history counters and stored
\* samples.
C5_RoundTrip ==
    LoadedAll =>
        /\ deeplearn_compare(learner, learner2) = 1
        /\ learner2.training_complete = learner.training_complete
        /\ learner2.itterations = learner.itterations
        /\ learner2.current_hidden_layer = learner.current_hidden_layer
        /\ learner2.BPerror = learner.BPerror
        /\ (learner2.autocoder = NULL) <=> (learner.autocoder = NULL)
        /\ learner2.error_threshold = learner.error_threshold
        /\ learner2.history_index = learner.history_index
        /\ learner2.history_ctr = learner.history_ctr
        /\ learner2.history_step = learner.history_step
        /\ \A i \in 0..(learner.history_index - 1) :
                learner2.history[i] = learner.history[i]

\* C5 witness: a partly trained learner with a halved history and a counter
\* between two samples went through save and load
C5_Witness ==
    /\ LoadedAll
    /\ learner.current_hidden_layer = 1
    /\ learner.history_index >= 2
    /\ learner.history_ctr > 0
    /\ learner.history_ctr # learner.history_step

\* the assertions of test_deeplearn_update: more than this many steps a layer
TestedSteps == 4

\* C6: a layer is promoted only by a pretraining step after which the error is
\* known, is below the layer's threshold and the autocoder has taken more than
\* the minimum number of steps; so it takes more than 4 update calls.
C6_PromotionGuard ==
    [][Promoted =>
          /\ trained'.op = "pretrain"
          /\ trained'.BPerror # DEEPLEARN_UNKNOWN_ERROR
          /\ trained'.BPerror < learner.error_threshold[Layer]
          /\ trained'.itterations > MinItterations
          /\ trained'.itterations > 0
          /\ layer_updates + 1 > TestedSteps]_vars

\* C6 witness: the first layer was promoted by the last update
C6_Witness ==
    /\ Live
    /\ Layer = 1
    /\ layer_updates = 0
    /\ trained.op = "pretrain"
    /\ updates > 0

\* C7: when each trained network's running-average error comes to stay below
\* its threshold and the caller keeps calling deeplearn_update, the learner
\* reaches current_hidden_layer = hiddenLayerCount, and after that
\* training_complete becomes true.
C7_TrainingCompletes ==
    /\ Live ~> (Live /\ Layer = HiddenLayers)
    /\ (Live /\ Layer = HiddenLayers) ~> (learner.training_complete = 1)

\* C7 witness: a converging run has promoted every layer and completed
C7_Witness ==
    /\ Live
    /\ Layer = HiddenLayers
    /\ learner.training_complete = 1
    /\ updates > HiddenLayers * (MinItterations + 1)

\* C8 (as claimed): deeplearn_init given a threshold array whose length is not
\* hidden_layers+1 fails, leaves no usable learner and allocates no network.
C8_ShortArrayRejected ==
    (pc # "declared" /\ threshold_len # HiddenLayers + 1) =>
        /\ ~Live
        /\ learner.net = NULL
        /\ learner.autocoder = NULL

\* C9 (as claimed): deeplearn_load returns 0 whenever the stream ends before
\* everything deeplearn_save wrote has been read.
C9_UnderrunReported ==
    (pc = "loaded" /\ Len(fp) < Len(deeplearn_save(learner).fp)) =>
        retval.load = 0

\* C10 (as claimed): deeplearn_save returns non-zero when every write
\* succeeds and deeplearn_load returns non-zero when every read succeeds.
C10_SuccessNonZero ==
    /\ pc \in {"saved", "loaded"} => retval.save # 0
    /\ LoadedAll => retval.load # 0
\* C11: immediately after deeplearn_init the target network and the
\* autocoder for layer 0 are both present, current_hidden_layer is 0,
\* training_complete is false, the error is UNKNOWN, the step count is 0 and
\* the history is empty (history_index 0, history_ctr 0, history_step 1).
C11_InitialState ==
    [][(pc = "declared" /\ pc' = "live") =>
          /\ learner'.net # NULL
          /\ learner'.autocoder # NULL
          /\ learner'.autocoder = bp_create_autocoder(learner'.net, 0)
          /\ learner'.current_hidden_layer = 0
          /\ learner'.training_complete = 0
          /\ learner'.BPerror = DEEPLEARN_UNKNOWN_ERROR
          /\ learner'.itterations = 0
          /\ learner'.net.itterations = 0
          /\ learner'.history_index = 0
          /\ learner'.history_ctr = 0
          /\ learner'.history_step = 1]_vars

\* C11 witness: deeplearn_init has just returned and nothing was called since
C11_Witness ==
    /\ Live
    /\ updates = 0
    /\ learner.net.learningRate = 0
    /\ learner.net.DropoutPercent = 0
    /\ learner.history_step = 1
\* C12: when training_complete is already true, deeplearn_update is a no-op:
\* it trains neither network and leaves current_hidden_layer, the error, the
\* autocoder, the history (index, counter, stride, samples) and every step
\* counter unchanged.
C12_CompleteNoOp ==
    [][(DeeplearnUpdate /\ learner.training_complete = 1) =>
          /\ learner' = learner
          /\ trained'.op = "none"
          /\ updates' = updates]_vars

\* C12 witness: an update was called on a learner whose training is complete
\* and whose history is between two samples
C12_Witness ==
    /\ Live
    /\ learner.training_complete = 1
    /\ trained = NoStep
    /\ updates > 0
    /\ learner.history_ctr > 0
\* C13: in every state reached from deeplearn_init by deeplearn_update calls,
\* training_complete = true implies current_hidden_layer = hiddenLayerCount
\* and error < error_threshold[hiddenLayerCount]; training_complete is never
\* set by a pretraining step, nor by the step that promotes the last layer.
C13_CompleteOnlyFineTuned ==
    /\ []((pc # "declared" /\ learner.training_complete = 1) =>
            /\ Layer = learner.net.HiddenLayers
            /\ learner.BPerror
                 < learner.error_threshold[learner.net.HiddenLayers])
    /\ [][/\ (Live /\ learner.training_complete = 0
                   /\ learner'.training_complete = 1) =>
                /\ Layer = learner.net.HiddenLayers
                /\ trained'.op = "finetune"
          /\ (DeeplearnUpdate /\ trained'.op = "pretrain") =>
                learner'.training_complete = 0
          /\ Promoted => learner'.training_complete = 0]_vars

\* C13 witness: a fine-tuning step has just completed the training
C13_Witness ==
    /\ Live
    /\ learner.training_complete = 1
    /\ trained.op = "finetune"
    /\ trained.BPerror < learner.error_threshold[HiddenLayers]
\* C14: every deeplearn_update call that is not a no-op increases the
\* learner's step count (learner.itterations, which deeplearn_save writes and
\* deeplearn_compare checks) by exactly one, in the pretraining and in the
\* fine-tuning branch alike, except that at UINT_MAX it stays at UINT_MAX.
C14_StepCounted ==
    [][(DeeplearnUpdate /\ learner.training_complete = 0) =>
          learner'.itterations =
              IF learner.itterations < UINT_MAX
              THEN learner.itterations + 1 ELSE UINT_MAX]_vars
\* an update step that stores a sample
Records ==
    /\ DeeplearnUpdate
    /\ learner.training_complete = 0
    /\ learner.history_ctr + 1 >= learner.history_step

\* an update step whose sample makes history_index reach the capacity
Compacts ==
    /\ Records
    /\ learner.history_index + 1 >= DEEPLEARN_HISTORY_SIZE

\* the value an update step hands to the history: its error, UNKNOWN as 0
Recorded ==
    IF learner'.BPerror = DEEPLEARN_UNKNOWN_ERROR THEN 0 ELSE learner'.BPerror

\* the samples as they are when the compaction begins
PreCompaction == [learner.history EXCEPT ![learner.history_index] = Recorded]

\* C15 as stated: when a record makes history_index reach the capacity C, the
\* compaction keeps the even-indexed entries: for every k in [0, C/2) the new
\* samples[k] equals the pre-compaction samples[2k]; history_index becomes
\* C/2 and history_step is doubled.
C15_KeepsEven ==
    [][Compacts =>
          /\ \A k \in 0..((DEEPLEARN_HISTORY_SIZE \div 2) - 1) :
                learner'.history[k] = PreCompaction[2 * k]
          /\ learner'.history_index = DEEPLEARN_HISTORY_SIZE \div 2
          /\ learner'.history_step = 2 * learner.history_step]_vars

\* C15 amended: when a record makes history_index reach the capacity C, the
\* compaction keeps the odd-indexed entries: for every k in [0, C/2) the new
\* samples[k] equals the pre-compaction samples[2k+1]; history_index becomes
\* C/2 and history_step is doubled.
C15_KeepsOdd ==
    [][Compacts =>
          /\ \A k \in 0..((DEEPLEARN_HISTORY_SIZE \div 2) - 1) :
                learner'.history[k] = PreCompaction[2 * k + 1]
          /\ learner'.history_index = DEEPLEARN_HISTORY_SIZE \div 2
          /\ learner'.history_step = 2 * learner.history_step]_vars

\* C15 witness: a compaction has just happened, and the samples it kept are
\* not all the same
C15_Witness ==
    /\ Live
    /\ learner.history_step >= 2
    /\ learner.history_index = DEEPLEARN_HISTORY_SIZE \div 2
    /\ learner.history_ctr = 0
    /\ learner.history[0] # learner.history[1]
\* C16: in every reachable state, stored sample i (0 <= i < history_index) is
\* the error recorded at update step i * history_step, so the x-coordinate
\* index * history_step of the export is the step at which the sample was
\* taken, also after compactions.  Steps are counted from 0, the count of
\* updates made before the one that records.
C16_SampleAtStride ==
    Live =>
        \A i \in 0..(learner.history_index - 1) :
            recorded_at[i] = deeplearn_plot_history_x(learner, i)
\* C17: stride gating.  Each update that is not a no-op increments
\* history_ctr; a sample is stored, and history_ctr reset to 0, exactly on the
\* calls where the incremented history_ctr reaches history_step, so exactly
\* history_step update calls elapse between two consecutive stored samples;
\* on all other calls history_index and the samples are unchanged.
C17_StrideGating ==
    /\ [](Live => learner.history_ctr < learner.history_step)
    /\ [][(DeeplearnUpdate /\ learner.training_complete = 0) =>
            IF learner.history_ctr + 1 = learner.history_step
            THEN /\ learner'.history_ctr = 0
                 /\ learner'.history_index =
                       IF learner.history_index + 1 < DEEPLEARN_HISTORY_SIZE
                       THEN learner.history_index + 1
                       ELSE (learner.history_index + 1) \div 2
                 /\ last_record' = updates
                 /\ updates - last_record = learner.history_step
            ELSE /\ learner'.history_ctr = learner.history_ctr + 1
                 /\ learner'.history_index = learner.history_index
                 /\ learner'.history = learner.history
                 /\ learner'.history_step = learner.history_step
                 /\ last_record' = last_record]_vars

\* C17 witness: under a stride of 2 or more a sample was stored after the
\* last compaction, and an update since then stored nothing
C17_Witness ==
    /\ Live
    /\ learner.history_step >= 2
    /\ learner.history_index > DEEPLEARN_HISTORY_SIZE \div 2
    /\ learner.history_ctr > 0
    /\ last_record = recorded_at[learner.history_index - 1]
    /\ updates - 1 - last_record = learner.history_ctr
\* the slot that holds the new sample when a storing update returns
RecordedSlot ==
    IF learner.history_index + 1 < DEEPLEARN_HISTORY_SIZE
    THEN learner.history_index
    ELSE learner.history_index \div 2

\* C18: the UNKNOWN sentinel is never stored in the history: whenever a
\* sample is recorded while the error is UNKNOWN (in particular on every
\* step that performs a promotion) the stored value is 0, and otherwise the
\* stored value is the error of that step.
C18_UnknownStoredAsZero ==
    /\ [](Live => \A i \in 0..(learner.history_index - 1) :
                     learner.history[i] # DEEPLEARN_UNKNOWN_ERROR)
    /\ [][Records =>
            /\ learner'.history[RecordedSlot] =
                  IF learner'.BPerror = DEEPLEARN_UNKNOWN_ERROR
                  THEN 0 ELSE learner'.BPerror
            /\ learner'.history[RecordedSlot] # DEEPLEARN_UNKNOWN_ERROR
            /\ Promoted => learner'.history[RecordedSlot] = 0
            /\ trained'.op = "finetune" =>
                  learner'.history[RecordedSlot] =
                      IF trained'.BPerror = DEEPLEARN_UNKNOWN_ERROR
                      THEN 0 ELSE trained'.BPerror]_vars

\* C18 witness: a promotion step has just stored a sample, which is 0
C18_Witness ==
    /\ Live
    /\ Layer >= 1
    /\ layer_updates = 0
    /\ learner.BPerror = DEEPLEARN_UNKNOWN_ERROR
    /\ last_record = updates - 1
    /\ learner.history_index > 0
    /\ learner.history[learner.history_index - 1] = 0
    /\ \E i \in 0..(learner.history_index - 1) : learner.history[i] # 0
\* the places of statement `name` in the statements of an update
Places(calls, name) == {i \in 1..Len(calls) : calls[i].call = name}

\* statement `first` was executed once, and before every `second`
Before(calls, first, second) ==
    /\ Cardinality(Places(calls, first)) = 1
    /\ \A i \in Places(calls, first), j \in Places(calls, second) : i < j

\* C19: an update that promotes layer L performs, in this order: the
\* transfer of the autocoder's weights into the target network at L, the
\* release of that autocoder, the increment of current_hidden_layer, the
\* creation of a new autocoder for layer L+1 only if L+1 < hiddenLayerCount,
\* and the reset of the error to UNKNOWN; after the step the error is
\* UNKNOWN, and two promotions never happen in consecutive updates: each
\* needs a fresh warm-up.
C19_PromotionOrder ==
    [][/\ Promoted =>
            LET calls == trained'.calls
                created == Places(calls, "bp_create_autocoder")
            IN /\ Before(calls, "bp_update_from_autocoder", "bp_free")
               /\ Before(calls, "bp_free", "current_hidden_layer++")
               /\ Before(calls, "current_hidden_layer++",
                         "bp_create_autocoder")
               /\ Before(calls, "current_hidden_layer++",
                         "BPerror = DEEPLEARN_UNKNOWN_ERROR")
               /\ \A i \in created, j \in Places(calls,
                        "BPerror = DEEPLEARN_UNKNOWN_ERROR") : i < j
               /\ Cardinality(Places(calls,
                        "BPerror = DEEPLEARN_UNKNOWN_ERROR")) = 1
               /\ \A i \in Places(calls, "bp_update_from_autocoder") :
                     calls[i].layer = Layer
               /\ IF Layer + 1 < learner.net.HiddenLayers
                  THEN /\ Cardinality(created) = 1
                       /\ \A i \in created : calls[i].layer = Layer + 1
                       /\ learner'.autocoder # NULL
                       /\ learner'.autocoder.itterations = 0
                  ELSE /\ created = {}
                       /\ learner'.autocoder = NULL
               /\ learner'.net.pretrained
                     = learner.net.pretrained \cup {Layer}
               /\ learner'.current_hidden_layer = Layer + 1
               /\ learner'.BPerror = DEEPLEARN_UNKNOWN_ERROR
               /\ learner.autocoder.itterations >= MinItterations
       /\ (DeeplearnUpdate
             /\ Places(trained.calls, "current_hidden_layer++") # {})
            => learner'.current_hidden_layer = Layer]_vars

\* C19 witness: the first hidden layer has just been promoted, a new
\* autocoder was made for the second, and the error is UNKNOWN
C19_Witness ==
    /\ Live
    /\ Layer = 1
    /\ Places(trained.calls, "bp_create_autocoder") # {}
    /\ learner.autocoder # NULL
    /\ learner.autocoder.itterations = 0
    /\ learner.BPerror = DEEPLEARN_UNKNOWN_ERROR
Compared == pc = "compared"

\* the places, in the order of the claim, of the compared fields in which
\* learner and learner2 differ
Mismatches ==
    {k \in 1..10 :
        \/ k = 1 /\ learner.current_hidden_layer
                       # learner2.current_hidden_layer
        \/ k = 2 /\ learner.BPerror # learner2.BPerror
        \/ k = 3 /\ learner.net # learner2.net
        \/ k = 4 /\ (learner.autocoder = NULL) # (learner2.autocoder = NULL)
        \/ k = 5 /\ learner.history_index # learner2.history_index
        \/ k = 6 /\ learner.history_ctr # learner2.history_ctr
        \/ k = 7 /\ learner.history_step # learner2.history_step
        \/ k = 8 /\ \E i \in 0..(learner.history_index - 1) :
                       learner.history[i] # learner2.history[i]
        \/ k = 9 /\ learner.itterations # learner2.itterations
        \/ k = 10 /\ learner.error_threshold # learner2.error_threshold}

\* C21: deeplearn_compare checks the fields in the fixed order
\* current_hidden_layer, error, target network, autocoder presence,
\* history_index, history_ctr, history_step, samples[0..history_index), step
\* count, thresholds; it stops at the first mismatch and returns a distinct
\* negative code for it (-1 ... -10 in that order); it returns 1 if and only
\* if none of these fields differs.
C21_CompareOrder ==
    Compared =>
        /\ retval.compare \in {1} \cup {-k : k \in 1..10}
        /\ retval.compare = 1 <=> Mismatches = {}
        /\ \A k \in Mismatches :
              (\A j \in Mismatches : k <= j) => retval.compare = -k

\* C21 witness: the learners differ in their samples and in their step
\* counts, and the comparison reports the samples
C21_Witness ==
    /\ Compared
    /\ Mismatches = {8, 9}
    /\ retval.compare = -8
\* C24: the result of deeplearn_compare does not depend on
\* training_complete: two learners that agree on every compared field but
\* differ in training_complete compare as equal (1).
C24_CompleteNotCompared ==
    Compared =>
        /\ (Mismatches = {}
              /\ learner.training_complete # learner2.training_complete)
            => retval.compare = 1
        /\ retval.compare =
              deeplearn_compare(learner,
                  [learner2 EXCEPT !.training_complete = 1 - @])

\* C24 witness: a learner whose training is complete was compared with one
\* that differs from it in training_complete only, and the result was 1
C24_Witness ==
    /\ Compared
    /\ learner.training_complete = 1
    /\ learner2.training_complete = 0
    /\ learner2 = [learner EXCEPT !.training_complete = 0]
    /\ retval.compare = 1
\* C22: deeplearn_set_learning_rate(r) and deeplearn_set_dropouts(p) set the
\* value on the target network and, when an autocoder is present, on that
\* autocoder too, so that right after the call both hold the same value; when
\* no autocoder is present only the target network changes; no other field
\* of the learner (layer, error, thresholds, history, completion flag) is
\* changed.
C22_SettersFrame ==
    [][/\ DeeplearnSetLearningRate =>
            \E rate \in Rates :
               /\ learner'.net = [learner.net EXCEPT !.learningRate = rate]
               /\ learner'.autocoder =
                     IF learner.autocoder # NULL
                     THEN [learner.autocoder EXCEPT !.learningRate = rate]
                     ELSE NULL
               /\ learner.autocoder # NULL =>
                     learner'.autocoder.learningRate
                        = learner'.net.learningRate
               /\ learner' = [learner EXCEPT !.net = learner'.net,
                                             !.autocoder = learner'.autocoder]
       /\ DeeplearnSetDropouts =>
            \E dropout_percent \in Rates :
               /\ learner'.net =
                     [learner.net EXCEPT !.DropoutPercent = dropout_percent]
               /\ learner'.autocoder =
                     IF learner.autocoder # NULL
                     THEN [learner.autocoder EXCEPT
                              !.DropoutPercent = dropout_percent]
                     ELSE NULL
               /\ learner.autocoder # NULL =>
                     learner'.autocoder.DropoutPercent
                        = learner'.net.DropoutPercent
               /\ learner' = [learner EXCEPT !.net = learner'.net,
                                             !.autocoder = learner'.autocoder]
      ]_vars

\* C22 witness: both setters were called while the second hidden layer was
\* being pretrained, and its autocoder holds the values of the network
C22_Witness ==
    /\ Live
    /\ Layer = 1
    /\ learner.autocoder # NULL
    /\ learner.autocoder.itterations > 0
    /\ learner.net.learningRate \in Rates
    /\ learner.net.DropoutPercent \in Rates
    /\ learner.autocoder.learningRate = learner.net.learningRate
    /\ learner.autocoder.DropoutPercent = learner.net.DropoutPercent
\* C23: between calls, in every state reached from deeplearn_init by
\* deeplearn_update calls, 0 <= history_ctr < history_step and
\* 0 <= history_index < C (strictly below the capacity), so the store
\* samples[history_index] made by the next record is inside the buffer.
C23_RecordInsideBuffer ==
    pc \in {"live", "freed"} =>
        /\ 0 <= learner.history_ctr
        /\ learner.history_ctr < learner.history_step
        /\ 0 <= learner.history_index
        /\ learner.history_index < DEEPLEARN_HISTORY_SIZE
        /\ learner.history_index \in DOMAIN learner.history

\* C23 witness: under a stride of 2 or more the next update stores a sample
\* in the last slot of the buffer
C23_Witness ==
    /\ Live
    /\ learner.training_complete = 0
    /\ learner.history_step >= 2
    /\ learner.history_ctr = learner.history_step - 1
    /\ learner.history_index = DEEPLEARN_HISTORY_SIZE - 1
\* the autocoders that are allocated and not released
LiveAutocoders ==
    {i \in 1..autocoders.made : autocoders.released[i] = 0}

\* C25: autocoder ownership.  Along any sequence deeplearn_init,
\* deeplearn_update*, deeplearn_free, at most one autocoder is live at any
\* time, the pretraining branch never uses an absent (released) autocoder,
\* every autocoder that was created is released exactly once (by a promotion
\* or by deeplearn_free, never both), and none is live after deeplearn_free.
C25_AutocoderOwnership ==
    /\ Cardinality(LiveAutocoders) <= 1
    /\ autocoders.wild = 0
    /\ \A i \in 1..autocoders.made : autocoders.released[i] <= 1
    /\ Live =>
          /\ (learner.autocoder # NULL) <=> Allocated(autocoders)
          /\ LiveAutocoders = IF autocoders.held # 0
                              THEN {autocoders.held} ELSE {}
          /\ trained.op = "pretrain" => autocoders.made >= 1
    /\ pc = "freed" =>
          /\ LiveAutocoders = {}
          /\ \A i \in 1..autocoders.made : autocoders.released[i] = 1

\* C25 witness: the learner was released while its second hidden layer was
\* being pretrained: the first autocoder was released by the promotion, the
\* second by deeplearn_free
C25_Witness ==
    /\ pc = "freed"
    /\ Layer = 1
    /\ trained.op = "pretrain"
    /\ autocoders.made = 2
    /\ autocoders.released = <<1, 1>>
====
